---------------------------- MODULE Spec2Model ----------------------------
(***************************************************************************)
(* Model of the retrieval-augmented analysis pipeline of the SEC filing    *)
(* analyzer (backend/app): AnalyzerService.analyze_filing and the          *)
(* VectorManager operations it drives, over a persisted ChromaDB           *)
(* collection shared by all requests and all process lifetimes.            *)
(*                                                                         *)
(* Scores are in tenths: a distance of 7 is 0.7, a similarity of 3 is 0.3. *)
(* A chunk's text is identified by (source_url, chunk_id): the remote      *)
(* filing does not change during a run, and the embedding model is         *)
(* deterministic, so the distance between a question and a chunk is a      *)
(* fixed function (DistanceTable).                                         *)
(*                                                                         *)
(* Scheduling: every request gets its own AnalyzerService (the route's     *)
(* dependency builds one per request). The only point where analyze_filing *)
(* really suspends is the HTTP fetch; initialize, add_documents,           *)
(* similarity_search and analyze_with_context contain no suspending await, *)
(* so once the fetch has returned the rest of the request runs without     *)
(* another request of the same event loop getting in between (running).    *)
(***************************************************************************)
EXTENDS Integers, Sequences, FiniteSets, TLC

\* ------------------------------------------------------------ bounds
\* Requests in flight or just answered that the model keeps track of (a
\* slot is reused by a later request), and process restarts.
NumRequests == 2
MaxRestarts == 1

\* ------------------------------------------------- program constants
TopK == 8
RelevanceThreshold == 3
FallbackN == 5

Requests == 1..NumRequests

VARIABLES
    pc,                 \* position of each request in analyze_filing
    req,                \* filing_url and question of each request
    documents,          \* documents returned by fetch_and_process_filing
    vectorInitialized,  \* AnalyzerService._vector_initialized (one service per request)
    relevant,           \* relevant_docs returned by similarity_search
    context,            \* context_documents handed to the AI service
    response,           \* <<AnalysisResponse>> once returned, <<>> before
    error,              \* <<exception>> once raised, <<>> before
    collection,         \* the persisted ChromaDB collection, in insertion order
    hashSeed,           \* the running process's string-hash salt
    restarts,           \* process restarts so far
    running,            \* request holding the event loop (0: none)
    dupPolicy,          \* what collection.add does with an existing id in this build
    trace,              \* history: stages started by each request
    completed,          \* history: stages that returned normally
    cause,              \* history: what really went wrong in a failed request
    usedFallback,       \* history: line 101's branch was taken
    addInfo,            \* history: the collection's count around the add_documents call
    ingested,           \* history: filings whose chunk list was added successfully
    initializedIn,      \* history: process lifetime in which the request's initialize() ran (0: not run)
    llm                 \* history: calls made to the LLM backend by the request, and their outcome

\* The pure functions of the pipeline, each applied on its own to an input
\* drawn from a bounded set: the input and, once applied, the result.
VARIABLES
    confidence,         \* _calculate_confidence_score(response, context_docs)
    chunker,            \* _create_chunks over the splitter's output
    splitter,           \* text_splitter.split_text(text)
    prompt,             \* _prepare_context(documents, metadata)
    startup,            \* configuration load, then construction per request
    cleanup,            \* the analyze route and its background cleanup task
    clearing,           \* clear_vector_database over a stored collection
    fetcher,            \* fetch_and_process_filing: validation and strategies
    status,             \* get_system_status over the two health checks
    scoring             \* the confidence score in double precision

vars == <<pc, req, documents, vectorInitialized, relevant, context, response,
          error, collection, hashSeed, restarts, running, dupPolicy, trace,
          completed, cause, usedFallback, addInfo, ingested, initializedIn,
          llm, confidence, chunker, splitter, prompt, startup, cleanup,
          clearing, fetcher, status, scoring>>

unitVars == <<confidence, chunker, splitter, prompt, startup, cleanup,
             clearing, fetcher, status, scoring>>

pipelineVars == <<pc, req, documents, vectorInitialized, relevant, context,
                  response, error, collection, hashSeed, restarts, running,
                  dupPolicy, trace, completed, cause, usedFallback, addInfo,
                  ingested, initializedIn, llm>>

\* ----------------------------------------------------------- helpers
Min(a, b) == IF a < b THEN a ELSE b

IsPrefix(s, t) == Len(s) <= Len(t) /\ \A i \in 1..Len(s) : s[i] = t[i]

NoDup(s) == \A i, j \in 1..Len(s) : i # j => s[i] # s[j]

\* ----------------------------------------------------- the filings
\* The filings a request can name and the questions it can ask, given by
\* the distances (tenths) between each question and each chunk of each
\* filing, as the embedding model and the collection's metric give them:
\* DistanceTable[filing][question][chunk]. For question 1, filing 1 has no
\* chunk above the relevance threshold and one exactly on it; filing 2 has
\* five above it and one exactly on it, at the same distance as filing 1's.
DistanceTable ==
    << << <<7, 8, 9, 10, 11, 12>> >>,
       << <<2, 3, 4, 5, 6, 7>> >> >>

Filings == 1..Len(DistanceTable)
Questions == 1..Len(DistanceTable[1])

DistanceRow(f, q) == DistanceTable[f][q]

DocLen(f) == Len(DistanceRow(f, 1))

\* The Documents _create_chunks emits for filing f: page_content is
\* identified by (source_url, chunk_id); the metadata is the rest.
Chunks(f) ==
    [k \in 1..DocLen(f) |->
        [source_url |-> f, chunk_id |-> k - 1, total_chunks |-> DocLen(f)]]

Distance(q, c) == DistanceRow(c.source_url, q)[c.chunk_id + 1]

NoRequest == [filing_url |-> 0, question |-> 0]
NoAdd == [called |-> FALSE, prior |-> FALSE, ok |-> FALSE, before |-> 0, after |-> 0]
NoLlm == [calls |-> 0, outcome |-> "none"]

\* A function not under study: no input, no result.
NotCalled == [called |-> FALSE]

PipelineInit ==
    /\ pc = [r \in Requests |-> "idle"]
    /\ req = [r \in Requests |-> NoRequest]
    /\ documents = [r \in Requests |-> <<>>]
    /\ vectorInitialized = [r \in Requests |-> FALSE]
    /\ relevant = [r \in Requests |-> <<>>]
    /\ context = [r \in Requests |-> <<>>]
    /\ response = [r \in Requests |-> <<>>]
    /\ error = [r \in Requests |-> <<>>]
    /\ collection = <<>>
    /\ hashSeed = 0
    /\ restarts = 0
    /\ running = 0
    /\ dupPolicy \in {"reject", "ignore"}
    /\ trace = [r \in Requests |-> <<>>]
    /\ completed = [r \in Requests |-> <<>>]
    /\ cause = [r \in Requests |-> "none"]
    /\ usedFallback = [r \in Requests |-> FALSE]
    /\ addInfo = [r \in Requests |-> NoAdd]
    /\ ingested = {}
    /\ initializedIn = [r \in Requests |-> 0]
    /\ llm = [r \in Requests |-> NoLlm]

Init ==
    /\ PipelineInit
    /\ confidence = NotCalled
    /\ chunker = NotCalled
    /\ splitter = NotCalled
    /\ prompt = NotCalled
    /\ startup = NotCalled
    /\ cleanup = NotCalled
    /\ clearing = NotCalled
    /\ fetcher = NotCalled
    /\ status = NotCalled
    /\ scoring = NotCalled


\* ------------------------------------------------------ error kinds
\* The route's except clauses: the HTTP status of each exception class.
HttpStatus(kind) ==
    IF kind = "DocumentProcessingError" THEN 400
    ELSE IF kind = "AIServiceError" THEN 502
    ELSE 500

Exception(kind, message) ==
    [kind |-> kind, status |-> HttpStatus(kind), message |-> message]

\* analyze_filing's except clauses re-raise: the request is over.
AfterFailure_Retry(stage) == stage
AfterFailure(stage) == "failed"

\* The statement order of analyze_filing: where the request stands after
\* the step at position p has returned normally.
NextPc_SkipRetrieve(p) ==
    CASE p = "fetching" -> "initializing"
      [] p = "initializing" -> "indexing"
      [] p = "indexing" -> "generating"
      [] p = "retrieving" -> "generating"
      [] p = "generating" -> "done"
NextPc(p) ==
    CASE p = "fetching" -> "initializing"
      [] p = "initializing" -> "indexing"
      [] p = "indexing" -> "retrieving"
      [] p = "retrieving" -> "generating"
      [] p = "generating" -> "done"

StageOrder == <<"fetch", "index", "retrieve", "generate">>

\* ------------------------------------------------- VectorManager: ids
\* Python's hash() of a str is salted per process (hash randomization):
\* the value depends on the process's seed and on the text, and is taken
\* here to be collision-free.
PythonHash(seed, text) == <<seed, text>>

\* doc_id = f"doc_{hash(doc.page_content + str(doc.metadata))}_{i}"
DocId(seed, doc, i) == [hash |-> PythonHash(seed, doc), pos |-> i]

NewEntries(seed, docs) ==
    [k \in 1..Len(docs) |-> [id |-> DocId(seed, docs[k], k - 1), doc |-> docs[k]]]

Ids(coll) == {coll[i].id : i \in 1..Len(coll)}

\* collection.add with ids the collection already holds: a build of the
\* store either raises (and adds nothing) or skips the existing ids.
AddRejected(coll, entries, policy) ==
    /\ policy = "reject"
    /\ \E k \in 1..Len(entries) : entries[k].id \in Ids(coll)

CollectionAdd_FirstOnly(coll, entries) ==
    LET IsNew(e) == e.id \notin Ids(coll)
    IN coll \o SubSeq(SelectSeq(entries, IsNew), 1, 1)
CollectionAdd(coll, entries) ==
    LET IsNew(e) == e.id \notin Ids(coll)
    IN coll \o SelectSeq(entries, IsNew)

\* ---------------------------------------------- VectorManager: search
\* collection.query(n_results = k): the k nearest entries, nearest first.
\* The store promises nothing about the order of entries at the same
\* distance, nor about which of them make the cut: every such result is
\* possible. A result is a sequence of positions in the collection.
RECURSIVE NearestOrders(_, _, _, _)
NearestOrders(coll, S, q, k) ==
    IF k = 0 \/ S = {} THEN {<<>>}
    ELSE LET d(i) == Distance(q, coll[i].doc)
             near == CHOOSE i \in S : \A j \in S : d(i) <= d(j)
             M == {i \in S : d(i) = d(near)}
         IN UNION {{<<i>> \o t : t \in NearestOrders(coll, S \ {i}, q, k - 1)} : i \in M}

QueryResults(coll, q, k) == NearestOrders(coll, 1..Len(coll), q, k)

\* similarity_score = 1.0 - distance
Similarity(distance) == 10 - distance

\* The (doc, score) pairs built from the store's result; idx (position in
\* the collection) and rank (position in the store's result) are history.
WithScores(coll, q, raw) ==
    [n \in 1..Len(raw) |->
        [doc |-> coll[raw[n]].doc,
         score |-> Similarity(Distance(q, coll[raw[n]].doc)),
         idx |-> raw[n],
         rank |-> n]]

\* documents_with_scores.sort(key = score, reverse = True): Python's sort
\* is stable, also with reverse = True.
InsertDesc_Unstable(s, x) ==
    LET k == Cardinality({i \in 1..Len(s) : s[i].score > x.score})
    IN SubSeq(s, 1, k) \o <<x>> \o SubSeq(s, k + 1, Len(s))
InsertDesc(s, x) ==
    LET k == Cardinality({i \in 1..Len(s) : s[i].score >= x.score})
    IN SubSeq(s, 1, k) \o <<x>> \o SubSeq(s, k + 1, Len(s))

RECURSIVE SortFrom(_, _)
SortFrom(sorted, rest) ==
    IF rest = <<>> THEN sorted
    ELSE SortFrom(InsertDesc(sorted, Head(rest)), Tail(rest))

SortBySimilarity_Ascending(pairs) ==
    LET s == SortFrom(<<>>, pairs)
    IN [n \in 1..Len(s) |-> s[Len(s) + 1 - n]]
SortBySimilarity(pairs) == SortFrom(<<>>, pairs)

SimilaritySearch(coll, q, raw) == SortBySimilarity(WithScores(coll, q, raw))

\* ------------------------------------------ AnalyzerService: context
\* [doc for doc, score in relevant_docs if score > 0.3]
IsRelevant_Inclusive(score) == score >= RelevanceThreshold
IsRelevant(score) == score > RelevanceThreshold

FilterRelevant(rel) ==
    LET Keep(p) == IsRelevant(p.score)
        kept == SelectSeq(rel, Keep)
    IN [n \in 1..Len(kept) |-> kept[n].doc]

\* documents[:5]
FallbackContext_LastN(docs) ==
    SubSeq(docs, Len(docs) - Min(FallbackN, Len(docs)) + 1, Len(docs))
FallbackContext(docs) == SubSeq(docs, 1, Min(FallbackN, Len(docs)))

ContextDocuments(rel, docs) ==
    IF FilterRelevant(rel) = <<>> THEN FallbackContext(docs) ELSE FilterRelevant(rel)

\* The AnalysisResponse of line 121. context_sources is not a field of
\* AnalysisResponse and is dropped by the model class, so relevant_chunks
\* keeps its default whatever include_context is.
AnalysisResponse(rq, docs, ctx) ==
    [question |-> rq.question,
     url |-> rq.filing_url,
     chunks_processed |-> Len(docs),
     chunks_used_for_context |-> Len(ctx),
     relevant_chunks |-> <<>>]

\* ------------------------------------------------------------ actions
\* A request may run when the event loop is free or it holds it already.
MayRun(r) == running \in {0, r}

Finished(r) == pc[r] \in {"done", "failed"}

\* Leaving analyze_filing without handing the event loop back.
Leave_KeepLoop(r) ==
    /\ req' = [req EXCEPT ![r] = NoRequest]
    /\ documents' = [documents EXCEPT ![r] = <<>>]
    /\ vectorInitialized' = [vectorInitialized EXCEPT ![r] = FALSE]
    /\ relevant' = [relevant EXCEPT ![r] = <<>>]
    /\ context' = [context EXCEPT ![r] = <<>>]
    /\ addInfo' = [addInfo EXCEPT ![r] = NoAdd]
    /\ running' = r

\* analyze_filing is left, by return or by exception: its arguments and
\* locals, and the request's AnalyzerService, are gone.
Leave(r) ==
    /\ req' = [req EXCEPT ![r] = NoRequest]
    /\ documents' = [documents EXCEPT ![r] = <<>>]
    /\ vectorInitialized' = [vectorInitialized EXCEPT ![r] = FALSE]
    /\ relevant' = [relevant EXCEPT ![r] = <<>>]
    /\ context' = [context EXCEPT ![r] = <<>>]
    /\ addInfo' = [addInfo EXCEPT ![r] = NoAdd]
    /\ running' = 0

\* An exception leaves analyze_filing (lines 146-156): a
\* DocumentProcessingError or AIServiceError as raised, anything else
\* wrapped in an AIServiceError.
Raise(r, stage, why, exc) ==
    /\ pc' = [pc EXCEPT ![r] = AfterFailure(pc[r])]
    /\ error' = [error EXCEPT ![r] = <<exc>>]
    /\ cause' = [cause EXCEPT ![r] = why]
    /\ trace' = [trace EXCEPT ![r] = IF stage = "" THEN @ ELSE Append(@, stage)]
    /\ Leave(r)
    /\ UNCHANGED <<response, collection, hashSeed, restarts, dupPolicy,
                   completed, usedFallback, ingested, initializedIn>>
    /\ UNCHANGED unitVars

\* A request arrives: analyze_filing is called and runs to the HTTP fetch
\* inside fetch_and_process_filing, where it suspends. The request takes
\* the first slot never used, or the slot of a request already answered.
Start(r, f, q) ==
    /\ \/ Finished(r)
       \/ pc[r] = "idle" /\ \A o \in 1..(r - 1) : pc[o] # "idle"
    /\ MayRun(r)
    /\ pc' = [pc EXCEPT ![r] = "fetching"]
    /\ req' = [req EXCEPT ![r] = [filing_url |-> f, question |-> q]]
    /\ trace' = [trace EXCEPT ![r] = <<"fetch">>]
    /\ completed' = [completed EXCEPT ![r] = <<>>]
    /\ response' = [response EXCEPT ![r] = <<>>]
    /\ error' = [error EXCEPT ![r] = <<>>]
    /\ cause' = [cause EXCEPT ![r] = "none"]
    /\ usedFallback' = [usedFallback EXCEPT ![r] = FALSE]
    /\ initializedIn' = [initializedIn EXCEPT ![r] = 0]
    /\ llm' = [llm EXCEPT ![r] = NoLlm]
    /\ UNCHANGED <<documents, vectorInitialized, relevant, context, collection,
                   hashSeed, restarts, running, dupPolicy, addInfo, ingested>>
    /\ UNCHANGED unitVars

\* fetch_and_process_filing returns the filing's chunks (never an empty
\* list: it raises instead).
FetchOK(r) ==
    /\ pc[r] = "fetching"
    /\ MayRun(r)
    /\ documents' = [documents EXCEPT ![r] = Chunks(req[r].filing_url)]
    /\ pc' = [pc EXCEPT ![r] = NextPc(pc[r])]
    /\ completed' = [completed EXCEPT ![r] = Append(@, "fetch")]
    /\ running' = r
    /\ UNCHANGED <<req, vectorInitialized, relevant, context, response, error,
                   collection, hashSeed, restarts, dupPolicy, trace, cause,
                   usedFallback, addInfo, ingested, initializedIn, llm>>
    /\ UNCHANGED unitVars

\* Every strategy of _try_multiple_formats raised (why = "fetch") or came
\* back without chunks (why = "parse"): either way best_chunks is empty and
\* fetch_and_process_filing raises the same DocumentProcessingError.
FetchFail(r, why) ==
    /\ pc[r] = "fetching"
    /\ MayRun(r)
    /\ why \in {"fetch", "parse"}
    /\ Raise(r, "", why,
             Exception("DocumentProcessingError",
                       "Failed to process filing: No content could be extracted from any format"))
    /\ UNCHANGED llm

\* Step 2: vector_manager.initialize() unless _vector_initialized.
InitializeOK(r) ==
    /\ pc[r] = "initializing"
    /\ MayRun(r)
    /\ vectorInitialized' = [vectorInitialized EXCEPT ![r] = TRUE]
    /\ initializedIn' = [initializedIn EXCEPT ![r] = restarts + 1]
    /\ pc' = [pc EXCEPT ![r] = NextPc(pc[r])]
    /\ UNCHANGED <<req, documents, relevant, context, response, error,
                   collection, hashSeed, restarts, running, dupPolicy, trace,
                   completed, cause, usedFallback, addInfo, ingested, llm>>
    /\ UNCHANGED unitVars

InitializeFail(r) ==
    /\ pc[r] = "initializing"
    /\ MayRun(r)
    /\ ~vectorInitialized[r]
    /\ Raise(r, "", "initialize",
             Exception("AIServiceError", "Failed to initialize vector manager"))
    /\ UNCHANGED llm

\* Step 3: add_documents embeds the chunks, builds the ids and adds the
\* batch to the collection.
AddDocumentsOK(r) ==
    LET entries == NewEntries(hashSeed, documents[r])
        after == CollectionAdd(collection, entries)
    IN /\ pc[r] = "indexing"
       /\ MayRun(r)
       /\ ~AddRejected(collection, entries, dupPolicy)
       /\ collection' = after
       /\ pc' = [pc EXCEPT ![r] = NextPc(pc[r])]
       /\ trace' = [trace EXCEPT ![r] = Append(@, "index")]
       /\ completed' = [completed EXCEPT ![r] = Append(@, "index")]
       /\ addInfo' = [addInfo EXCEPT ![r] =
                        [called |-> TRUE, prior |-> req[r].filing_url \in ingested,
                         ok |-> TRUE, before |-> Len(collection), after |-> Len(after)]]
       /\ ingested' = ingested \cup {req[r].filing_url}
       /\ UNCHANGED <<req, documents, vectorInitialized, relevant, context,
                      response, error, hashSeed, restarts, running, dupPolicy,
                      cause, usedFallback, initializedIn, llm>>
       /\ UNCHANGED unitVars

\* add_documents raises: the embedding model fails (why = "embedding"),
\* the store fails (why = "index") or the store refuses an id it already
\* holds (why = "duplicate_id"). All three leave as the same AIServiceError.
AddDocumentsFail(r, why) ==
    /\ pc[r] = "indexing"
    /\ MayRun(r)
    /\ why \in {"embedding", "index", "duplicate_id"}
    /\ (why = "duplicate_id") =>
           AddRejected(collection, NewEntries(hashSeed, documents[r]), dupPolicy)
    /\ Raise(r, "index", why,
             Exception("AIServiceError", "Failed to add documents to vector database"))
    /\ UNCHANGED llm

\* Steps 4 and 5: similarity_search(question, top_k = 8), the relevance
\* filter and the fallback to the leading chunks of the request's filing.
RetrieveOK(r) ==
    /\ pc[r] = "retrieving"
    /\ MayRun(r)
    /\ \E raw \in QueryResults(collection, req[r].question, TopK) :
         LET rel == SimilaritySearch(collection, req[r].question, raw)
         IN /\ relevant' = [relevant EXCEPT ![r] = rel]
            /\ context' = [context EXCEPT ![r] = ContextDocuments(rel, documents[r])]
            /\ usedFallback' = [usedFallback EXCEPT ![r] = (FilterRelevant(rel) = <<>>)]
    /\ pc' = [pc EXCEPT ![r] = NextPc(pc[r])]
    /\ trace' = [trace EXCEPT ![r] = Append(@, "retrieve")]
    /\ completed' = [completed EXCEPT ![r] = Append(@, "retrieve")]
    /\ UNCHANGED <<req, documents, vectorInitialized, response, error,
                   collection, hashSeed, restarts, running, dupPolicy, cause,
                   addInfo, ingested, initializedIn, llm>>
    /\ UNCHANGED unitVars

RetrieveFail(r) ==
    /\ pc[r] = "retrieving"
    /\ MayRun(r)
    /\ Raise(r, "retrieve", "search",
             Exception("AIServiceError", "Failed to perform similarity search"))
    /\ UNCHANGED llm

\* _generate_response: the calls analyze_with_context makes to the LLM
\* backend (client.generate_content) for one request, whatever the outcome
\* of the call: text, an exception of the backend, or an empty text.
GenerateCalls_Retry(outcome) == IF outcome = "text" THEN 1 ELSE 2
GenerateCalls(outcome) == 1

\* Steps 6 and 7: analyze_with_context calls the LLM once; the response is
\* assembled and returned.
GenerateOK(r) ==
    /\ pc[r] = "generating"
    /\ MayRun(r)
    /\ llm' = [llm EXCEPT ![r] = [calls |-> GenerateCalls("text"), outcome |-> "text"]]
    /\ response' = [response EXCEPT ![r] =
                      <<AnalysisResponse(req[r], documents[r], context[r])>>]
    /\ pc' = [pc EXCEPT ![r] = NextPc(pc[r])]
    /\ trace' = [trace EXCEPT ![r] = Append(@, "generate")]
    /\ completed' = [completed EXCEPT ![r] = Append(@, "generate")]
    /\ Leave(r)
    /\ UNCHANGED <<error, collection, hashSeed, restarts, dupPolicy, cause,
                   usedFallback, ingested, initializedIn>>
    /\ UNCHANGED unitVars

\* retry_after of an AIServiceError built from a message alone: None.
NoRetryAfter == 0

\* What client.generate_content did when the call gave no text: the
\* backend's rate-limit error with its retry hint in seconds, another
\* error of the backend, or an answer without text.
BackendFailure(outcome) ==
    CASE outcome = "rate_limit" -> [kind |-> "RateLimitError", retry_after |-> 30]
      [] outcome = "backend_error" -> [kind |-> "BackendError", retry_after |-> NoRetryAfter]
      [] outcome = "empty_text" -> [kind |-> "AIServiceError", retry_after |-> NoRetryAfter]

\* except Exception as e: raise AIServiceError(f"...: {str(e)}"): a new
\* AIServiceError built from the message alone, whatever e was.
WrapAsAIServiceError(message, e) ==
    [kind |-> "AIServiceError", status |-> HttpStatus("AIServiceError"),
     message |-> message, retry_after |-> NoRetryAfter]

\* The backend raises (outcome = "backend_error", or "rate_limit" when it
\* is the backend's rate limit) or answers with empty text (outcome =
\* "empty_text"): _generate_response raises AIServiceError and
\* analyze_with_context wraps it in another.
GenerateFail(r, outcome) ==
    /\ pc[r] = "generating"
    /\ MayRun(r)
    /\ outcome \in {"backend_error", "rate_limit", "empty_text"}
    /\ llm' = [llm EXCEPT ![r] = [calls |-> GenerateCalls(outcome), outcome |-> outcome]]
    /\ Raise(r, "generate", "generation",
             WrapAsAIServiceError("Failed to analyze with context",
                 WrapAsAIServiceError("Failed to generate response",
                                      BackendFailure(outcome))))

\* The process is restarted while no request is in flight: the collection
\* stays on disk, the answers already given stay given. The new process
\* draws a fresh hash salt, or has the old one again (PYTHONHASHSEED set).
Restart(s) ==
    /\ running = 0
    /\ restarts < MaxRestarts
    /\ \A r \in Requests : pc[r] # "fetching"
    /\ s \in {hashSeed, restarts + 1}
    /\ restarts' = restarts + 1
    /\ hashSeed' = s
    /\ UNCHANGED <<pc, req, documents, vectorInitialized, relevant, context,
                   response, error, collection, running, dupPolicy, trace,
                   completed, cause, usedFallback, addInfo, ingested,
                   initializedIn, llm>>
    /\ UNCHANGED unitVars

Next ==
    \/ \E r \in Requests, f \in Filings, q \in Questions : Start(r, f, q)
    \/ \E r \in Requests : FetchOK(r)
    \/ \E r \in Requests, why \in {"fetch", "parse"} : FetchFail(r, why)
    \/ \E r \in Requests : InitializeOK(r)
    \/ \E r \in Requests : InitializeFail(r)
    \/ \E r \in Requests : AddDocumentsOK(r)
    \/ \E r \in Requests, why \in {"embedding", "index", "duplicate_id"} :
          AddDocumentsFail(r, why)
    \/ \E r \in Requests : RetrieveOK(r)
    \/ \E r \in Requests : RetrieveFail(r)
    \/ \E r \in Requests : GenerateOK(r)
    \/ \E r \in Requests, outcome \in {"backend_error", "rate_limit", "empty_text"} :
          GenerateFail(r, outcome)
    \/ \E s \in {hashSeed, restarts + 1} : Restart(s)

Spec == Init /\ [][Next]_vars

\* Request r, in a stage and free to run, takes its next step: the call it
\* awaits (HTTP fetch, store, embedding, LLM) returns or raises, and the
\* request moves to the next stage or to "failed". Under Next these are the
\* steps FetchOK(r) ... GenerateFail(r, _), and one of them is possible
\* whenever r is in a stage and may run.
RequestStep(r) ==
    /\ pc[r] \in {"fetching", "initializing", "indexing", "retrieving",
                 "generating"}
    /\ MayRun(r)
    /\ \E p \in {NextPc(pc[r]), AfterFailure(pc[r])} :
           pc' = [pc EXCEPT ![r] = p]

\* The pipeline under the event loop's scheduling: every external call
\* completes, and a coroutine whose awaited call has completed is resumed
\* in its turn, however often other requests hold the loop in between
\* (strong fairness: weak fairness would let a request wait forever while
\* others come and go).
FairSpec == Spec /\ \A r \in Requests : SF_pc(RequestStep(r))

\* ================================================================
\* AIService._calculate_confidence_score

\* Answer texts are sequences of fragments. A fragment has a length in
\* characters and is an uncertainty phrase ("unknown", in any letter case:
\* the code searches response.lower()), a figure matching the regular
\* expression \$[\d,]+|\d+%|\d{4}-\d{2}-\d{2} ("12%"), or plain text.
\* Scores are in tenths.
Fragments ==
    { [kind |-> "uncertain", len |-> 7],
      [kind |-> "figure", len |-> 3],
      [kind |-> "plain", len |-> 93],
      [kind |-> "plain", len |-> 150] }

\* Fragments in an answer, and context chunks handed to the scorer.
MaxFragments == 3
MaxContextDocs == 4

Answers == UNION {[1..n -> Fragments] : n \in 0..MaxFragments}

RECURSIVE TextLen(_)
TextLen(text) == IF text = <<>> THEN 0 ELSE Head(text).len + TextLen(Tail(text))

\* any(phrase in response.lower() for phrase in uncertainty_phrases)
HasUncertainty(text) == \E i \in 1..Len(text) : text[i].kind = "uncertain"

\* re.search(r'\$[\d,]+|\d+%|\d{4}-\d{2}-\d{2}', response)
HasFigure(text) == \E i \in 1..Len(text) : text[i].kind = "figure"

BaseScore == 5

UncertaintyAdjust(text) == IF HasUncertainty(text) THEN -2 ELSE 0

FigureAdjust(text) == IF HasFigure(text) THEN 2 ELSE 0

ContextAdjust_Mild(n) == IF n >= 3 THEN 1 ELSE IF n = 0 THEN -2 ELSE 0
ContextAdjust(n) == IF n >= 3 THEN 1 ELSE IF n = 0 THEN -3 ELSE 0

LengthAdjust(text) ==
    IF TextLen(text) < 100 THEN -1 ELSE IF TextLen(text) > 300 THEN 1 ELSE 0

\* max(0.0, min(1.0, score))
Clamp_None(score) == score
Clamp(score) == IF score < 0 THEN 0 ELSE IF score > 10 THEN 10 ELSE score

CalculateConfidenceScore(text, n) ==
    Clamp(BaseScore + UncertaintyAdjust(text) + FigureAdjust(text)
            + ContextAdjust(n) + LengthAdjust(text))

ConfidenceInit ==
    /\ PipelineInit
    /\ confidence \in [called : {FALSE}, response : Answers,
                       context_docs : 0..MaxContextDocs, score : {0}]
    /\ chunker = NotCalled
    /\ splitter = NotCalled
    /\ prompt = NotCalled
    /\ startup = NotCalled
    /\ cleanup = NotCalled
    /\ clearing = NotCalled
    /\ fetcher = NotCalled
    /\ status = NotCalled
    /\ scoring = NotCalled

CalculateConfidence ==
    /\ ~confidence.called
    /\ confidence' = [confidence EXCEPT
                        !.called = TRUE,
                        !.score = CalculateConfidenceScore(confidence.response,
                                                           confidence.context_docs)]
    /\ UNCHANGED <<pipelineVars, chunker, splitter, prompt,
                   startup, cleanup, clearing, fetcher, status, scoring>>

ConfidenceNext == CalculateConfidence

ConfidenceSpec == ConfidenceInit /\ [][ConfidenceNext]_vars

\* ================================================================
\* DocumentProcessor._create_chunks, over the output of split_text

\* len(chunk.strip()) > 50
MinChunkChars == 50

\* The chunks split_text can hand over, by their length and their length
\* once stripped of surrounding whitespace.
Pieces ==
    { [len |-> 10, stripped |-> 10],
      [len |-> 52, stripped |-> 50],
      [len |-> 51, stripped |-> 51],
      [len |-> 200, stripped |-> 200] }

\* Chunks in a split, and the largest max_chunks setting.
MaxSplits == 4
MaxMaxChunks == 3

SplitOutputs == UNION {[1..n -> Pieces] : n \in 0..MaxSplits}

KeepChunk_All(chunk) == TRUE
KeepChunk(chunk) == chunk.stripped > MinChunkChars

\* enumerate(chunks): the index given to the chunk at position i (from 1).
ChunkOrdinal_OneBased(i) == i
ChunkOrdinal(i) == i - 1

\* The Document built for the chunk at position i of the split.
ChunkDocument(chunks, i) ==
    [page_content |-> chunks[i],
     chunk_id |-> ChunkOrdinal(i),
     chunk_length |-> chunks[i].len,
     total_chunks |-> Len(chunks)]

\* documents[:max_chunks]
CapChunks_Tail(docs, max) == SubSeq(docs, Len(docs) - Min(max, Len(docs)) + 1, Len(docs))
CapChunks(docs, max) == SubSeq(docs, 1, Min(max, Len(docs)))

CreateChunks(chunks, max) ==
    LET all == [i \in 1..Len(chunks) |-> ChunkDocument(chunks, i)]
        Keep(d) == KeepChunk(d.page_content)
    IN CapChunks(SelectSeq(all, Keep), max)

ChunkerInit ==
    /\ PipelineInit
    /\ chunker \in [called : {FALSE}, chunks : SplitOutputs,
                    max_chunks : 1..MaxMaxChunks, documents : {<<>>}]
    /\ confidence = NotCalled
    /\ splitter = NotCalled
    /\ prompt = NotCalled
    /\ startup = NotCalled
    /\ cleanup = NotCalled
    /\ clearing = NotCalled
    /\ fetcher = NotCalled
    /\ status = NotCalled
    /\ scoring = NotCalled

CreateChunksCall ==
    /\ ~chunker.called
    /\ chunker' = [chunker EXCEPT
                     !.called = TRUE,
                     !.documents = CreateChunks(chunker.chunks, chunker.max_chunks)]
    /\ UNCHANGED <<pipelineVars, confidence, splitter, prompt,
                   startup, cleanup, clearing, fetcher, status, scoring>>

ChunkerNext == CreateChunksCall

ChunkerSpec == ChunkerInit /\ [][ChunkerNext]_vars

\* ================================================================
\* RecursiveCharacterTextSplitter.split_text, as configured in
\* DocumentProcessor.__init__: keep_separator and strip_whitespace at their
\* defaults, the separators of line 41. Texts are sequences of characters
\* over a letter, the full stop and the space, so the separators that can
\* occur in a text are ".", " " and "".
Alphabet == {"a", ".", " "}
Separators_NoEmpty == <<".", " ">>
Separators == <<".", " ", "">>

\* Characters in a text, and the largest chunk_size setting.
MaxTextLen == 5
MaxChunkSize == 3

Texts == UNION {[1..n -> Alphabet] : n \in 0..MaxTextLen}

RECURSIVE Strip(_)
Strip(t) ==
    IF t = <<>> THEN t
    ELSE IF Head(t) = " " THEN Strip(Tail(t))
    ELSE IF t[Len(t)] = " " THEN Strip(SubSeq(t, 1, Len(t) - 1))
    ELSE t

RECURSIVE Concat(_)
Concat(parts) == IF parts = <<>> THEN <<>> ELSE Head(parts) \o Concat(Tail(parts))

\* _split_text_with_regex with keep_separator: the text before the first
\* separator, then each separator with the text that follows it; empty
\* pieces are dropped. With the separator "" the text's characters.
RECURSIVE SplitKeep(_, _, _)
SplitKeep(text, sep, cur) ==
    LET done == IF cur = <<>> THEN <<>> ELSE <<cur>>
    IN IF text = <<>> THEN done
       ELSE IF Head(text) = sep THEN done \o SplitKeep(Tail(text), sep, <<sep>>)
       ELSE SplitKeep(Tail(text), sep, Append(cur, Head(text)))

SplitWithRegex(text, sep) ==
    IF sep = "" THEN [i \in 1..Len(text) |-> <<text[i]>>]
    ELSE SplitKeep(text, sep, <<>>)

\* _join_docs: the pieces joined and stripped; nothing if that is empty.
JoinDocs(cur) ==
    LET t == Strip(Concat(cur)) IN IF t = <<>> THEN <<>> ELSE <<t>>

\* _merge_splits: adding a piece of length len to pieces of total length
\* total would pass chunk_size.
Overflows(total, len, size) == total + len > size

\* _merge_splits, the while loop: pieces leave the front of the current
\* chunk until what stays is within chunk_overlap and leaves room.
RECURSIVE DropFront(_, _, _, _)
DropFront(cur, len, size, overlap) ==
    LET total == Len(Concat(cur))
    IN IF total > overlap \/ (Overflows(total, len, size) /\ total > 0)
       THEN DropFront(Tail(cur), len, size, overlap)
       ELSE cur

RECURSIVE MergeSplits(_, _, _, _, _)
MergeSplits(splits, cur, docs, size, overlap) ==
    IF splits = <<>> THEN docs \o JoinDocs(cur)
    ELSE LET d == Head(splits)
             total == Len(Concat(cur))
         IN IF Overflows(total, Len(d), size) /\ cur # <<>>
            THEN MergeSplits(Tail(splits),
                             Append(DropFront(cur, Len(d), size, overlap), d),
                             docs \o JoinDocs(cur), size, overlap)
            ELSE MergeSplits(Tail(splits), Append(cur, d), docs, size, overlap)

\* _split_text: position in seps of the separator used: the first that is
\* "" or occurs in the text.
SeparatorIndex(text, seps) ==
    LET Usable(i) == seps[i] = "" \/ \E k \in 1..Len(text) : text[k] = seps[i]
    IN IF \E i \in 1..Len(seps) : Usable(i)
       THEN CHOOSE i \in 1..Len(seps) : Usable(i) /\ \A j \in 1..(i - 1) : ~Usable(j)
       ELSE Len(seps)

RECURSIVE SplitTextWith(_, _, _, _)
RECURSIVE SplitPieces(_, _, _, _, _)

\* _split_text, the loop over the pieces: pieces shorter than chunk_size
\* are collected and merged, a longer one is split again with the
\* remaining separators, or kept as it is when none remains.
SplitPieces(splits, good, newSeps, size, overlap) ==
    LET merged == IF good = <<>> THEN <<>>
                  ELSE MergeSplits(good, <<>>, <<>>, size, overlap)
    IN IF splits = <<>> THEN merged
       ELSE LET piece == Head(splits)
            IN IF Len(piece) < size
               THEN SplitPieces(Tail(splits), Append(good, piece), newSeps, size, overlap)
               ELSE merged
                    \o (IF newSeps = <<>> THEN <<piece>>
                        ELSE SplitTextWith(piece, newSeps, size, overlap))
                    \o SplitPieces(Tail(splits), <<>>, newSeps, size, overlap)

SplitTextWith(text, seps, size, overlap) ==
    LET i == SeparatorIndex(text, seps)
        newSeps == IF seps[i] = "" THEN <<>> ELSE SubSeq(seps, i + 1, Len(seps))
    IN SplitPieces(SplitWithRegex(text, seps[i]), <<>>, newSeps, size, overlap)

SplitText(text, size, overlap) == SplitTextWith(text, Separators, size, overlap)

SplitterInit ==
    /\ PipelineInit
    /\ splitter \in {c \in [called : {FALSE}, text : Texts,
                            chunk_size : 1..MaxChunkSize,
                            chunk_overlap : 0..(MaxChunkSize - 1),
                            chunks : {<<>>}] :
                       c.chunk_overlap < c.chunk_size}
    /\ confidence = NotCalled
    /\ chunker = NotCalled
    /\ prompt = NotCalled
    /\ startup = NotCalled
    /\ cleanup = NotCalled
    /\ clearing = NotCalled
    /\ fetcher = NotCalled
    /\ status = NotCalled
    /\ scoring = NotCalled

SplitTextCall ==
    /\ ~splitter.called
    /\ splitter' = [splitter EXCEPT
                      !.called = TRUE,
                      !.chunks = SplitText(splitter.text, splitter.chunk_size,
                                           splitter.chunk_overlap)]
    /\ UNCHANGED <<pipelineVars, confidence, chunker, prompt,
                   startup, cleanup, clearing, fetcher, status, scoring>>

SplitterNext == SplitTextCall

SplitterSpec == SplitterInit /\ [][SplitterNext]_vars

\* ================================================================
\* AIService._prepare_context: the excerpts of the prompt

\* documents[:10]
MaxExcerpts == 10
\* len(chunk_text) > 50
MinExcerptChars == 50

\* Context documents handed to _prepare_context.
MaxPromptDocs == 12

\* The context lists tried: long chunks, but for at most one position
\* (at: 0 for none) holding any of the Pieces.
LongPiece == [len |-> 200, stripped |-> 200]

PromptDocs(n, at, piece) ==
    [i \in 1..n |-> [page_content |-> IF i = at THEN piece ELSE LongPiece,
                     chunk_id |-> i - 1]]

PromptInputs ==
    {PromptDocs(n, at, piece) : n \in 0..MaxPromptDocs, at \in 0..MaxPromptDocs,
                                piece \in Pieces}

\* chunk_text = doc.page_content.strip(); len(chunk_text) > 50
IsExcerpt_AtLeast(content) == content.stripped >= MinExcerptChars
IsExcerpt(content) == content.stripped > MinExcerptChars

\* The "Excerpt i" entries of the context, i counting the documents of
\* documents[:10] from 1.
PrepareContext(docs) ==
    LET first == SubSeq(docs, 1, Min(MaxExcerpts, Len(docs)))
        numbered == [i \in 1..Len(first) |-> [number |-> i, doc |-> first[i]]]
        Shown(e) == IsExcerpt(e.doc.page_content)
    IN SelectSeq(numbered, Shown)

PromptInit ==
    /\ PipelineInit
    /\ prompt \in [called : {FALSE}, documents : PromptInputs, excerpts : {<<>>}]
    /\ confidence = NotCalled
    /\ chunker = NotCalled
    /\ splitter = NotCalled
    /\ startup = NotCalled
    /\ cleanup = NotCalled
    /\ clearing = NotCalled
    /\ fetcher = NotCalled
    /\ status = NotCalled
    /\ scoring = NotCalled

PrepareContextCall ==
    /\ ~prompt.called
    /\ prompt' = [prompt EXCEPT !.called = TRUE,
                                !.excerpts = PrepareContext(prompt.documents)]
    /\ UNCHANGED <<pipelineVars, confidence, chunker, splitter,
                   startup, cleanup, clearing, fetcher, status, scoring>>

PromptNext == PrepareContextCall

PromptSpec == PromptInit /\ [][PromptNext]_vars

\* ------------------------------------------- configuration and startup
\* (core/config.py, api/routes/analyzer.py, services/*.__init__)

\* The values the environment can put into Settings: none of the fields is
\* constrained by the Settings class itself.
SettingsSpace ==
    [google_api_key : BOOLEAN,
     chunk_size : 0..MaxChunkSize,
     chunk_overlap : 0..MaxChunkSize,
     max_chunks : 0..MaxMaxChunks]

\* validate_settings: "ok", or the ValueError it raises. max_chunks is not
\* examined.
ValidateSettings(s) ==
    IF ~s.google_api_key THEN "ValueError"
    ELSE IF s.chunk_size <= 0 THEN "ValueError"
    ELSE IF s.chunk_overlap >= s.chunk_size THEN "ValueError"
    ELSE "ok"

\* The import of core/config.py: the ValueError is caught and printed as a
\* warning, and the import completes either way.
AfterImport(validation) == "serving"

\* DocumentProcessor.__init__ builds the text splitter, whose constructor
\* raises when the overlap is larger than the size; whether it accepts a
\* size of 0 depends on the installed release. The set of possible
\* outcomes: TRUE for constructed.
SplitterConstructs(s) ==
    IF s.chunk_overlap > s.chunk_size THEN {FALSE}
    ELSE IF s.chunk_size <= 0 THEN {TRUE, FALSE}
    ELSE {TRUE}

\* AIService.__init__ raises AIServiceError without an API key.
AIServiceConstructs(s) == s.google_api_key

StartupInit ==
    /\ PipelineInit
    /\ startup \in [called : {FALSE}, settings : SettingsSpace,
                    phase : {"importing"}, warned : {FALSE},
                    outcome : {"none"}]
    /\ /\ confidence = NotCalled
    /\ chunker = NotCalled
    /\ splitter = NotCalled
    /\ prompt = NotCalled
    /\ cleanup = NotCalled
    /\ clearing = NotCalled
    /\ fetcher = NotCalled
    /\ status = NotCalled
    /\ scoring = NotCalled

\* settings = get_settings(); try: validate_settings(settings) except
\* ValueError: print(warning)
LoadConfig ==
    /\ startup.phase = "importing"
    /\ startup' = [startup EXCEPT
                     !.called = TRUE,
                     !.warned = (ValidateSettings(startup.settings) # "ok"),
                     !.phase = AfterImport(ValidateSettings(startup.settings))]
    /\ UNCHANGED <<pipelineVars, confidence, chunker, splitter, prompt,
                   cleanup, clearing, fetcher, status, scoring>>

\* An analyze request: get_analyzer_service constructs AnalyzerService from
\* the settings, and the route calls analyze_filing on it.
ServeAnalyze ==
    /\ startup.phase = "serving"
    /\ startup.outcome = "none"
    /\ AIServiceConstructs(startup.settings)
    /\ TRUE \in SplitterConstructs(startup.settings)
    /\ startup' = [startup EXCEPT !.outcome = "served"]
    /\ UNCHANGED <<pipelineVars, confidence, chunker, splitter, prompt,
                   cleanup, clearing, fetcher, status, scoring>>

\* An analyze request whose AnalyzerService cannot be constructed: the
\* dependency raises and the route body never runs.
ConstructionFails ==
    /\ startup.phase = "serving"
    /\ startup.outcome = "none"
    /\ \/ ~AIServiceConstructs(startup.settings)
       \/ FALSE \in SplitterConstructs(startup.settings)
    /\ startup' = [startup EXCEPT !.outcome = "rejected"]
    /\ UNCHANGED <<pipelineVars, confidence, chunker, splitter, prompt,
                   cleanup, clearing, fetcher, status, scoring>>

StartupNext ==
    \/ LoadConfig
    \/ ServeAnalyze
    \/ ConstructionFails

StartupSpec == StartupInit /\ [][StartupNext]_vars

\* ------------------------------------ the analyze route and its cleanup
\* (api/routes/analyzer.py)

MaxTempFiles == 3

\* What a path in the list can be when the task runs: a file whose removal
\* succeeds, a file whose removal raises, or a path that no longer exists.
FileKinds == {"removable", "locked", "missing"}

\* The lists _cleanup_temporary_files is applied to. The route passes
\* analyzer.get_temp_files(), a copy of a list that no code in src/ appends
\* to; the function itself takes any list of paths.
TempFileLists ==
    UNION {[1..n -> FileKinds] : n \in 0..MaxTempFiles}

\* The exceptions analyze_filing can raise, as the route's except clauses
\* receive them.
RouteFailures ==
    {"ValidationError", "DocumentProcessingError", "AIServiceError",
     "Exception"}

\* The status of the HTTPException each except clause raises.
RouteStatus(kind) ==
    CASE kind = "ValidationError" -> 422
      [] kind = "DocumentProcessingError" -> 400
      [] kind = "AIServiceError" -> 502
      [] OTHER -> 500

NoCleanup == [attempted |-> {}, removed |-> {}, warnings |-> 0,
              aborted |-> FALSE]

\* except Exception as e: print(warning) -- the loop goes on with the next
\* path.
OnRemoveError_Propagate(acc) == [acc EXCEPT !.aborted = TRUE]

OnRemoveError(acc) == acc

\* One iteration of the loop over temp_files, for the path at position i.
CleanupOne(acc, files, i) ==
    IF acc.aborted THEN acc
    ELSE LET tried == [acc EXCEPT !.attempted = @ \cup {i}]
         IN  CASE files[i] = "missing" -> tried
               [] files[i] = "removable" ->
                      [tried EXCEPT !.removed = @ \cup {i}]
               [] files[i] = "locked" ->
                      OnRemoveError([tried EXCEPT !.warnings = @ + 1])

RECURSIVE CleanupFrom(_, _, _)
CleanupFrom(acc, files, i) ==
    IF i > Len(files) THEN acc
    ELSE CleanupFrom(CleanupOne(acc, files, i), files, i + 1)

\* _cleanup_temporary_files(temp_files)
CleanupTemporaryFiles(files) == CleanupFrom(NoCleanup, files, 1)

CleanupInit ==
    /\ PipelineInit
    /\ cleanup \in [called : {FALSE}, temp_files : TempFileLists,
                    phase : {"analyzing"}, result : {"none"},
                    http_status : {0}, scheduled : {FALSE},
                    task : {NoCleanup}]
    /\ /\ confidence = NotCalled
    /\ chunker = NotCalled
    /\ splitter = NotCalled
    /\ prompt = NotCalled
    /\ startup = NotCalled
    /\ clearing = NotCalled
    /\ fetcher = NotCalled
    /\ status = NotCalled
    /\ scoring = NotCalled

\* result = await analyzer.analyze_filing(...); add_task(cleanup, files);
\* return result
RouteReturns ==
    /\ cleanup.phase = "analyzing"
    /\ cleanup' = [cleanup EXCEPT !.called = TRUE,
                                  !.result = "analysis",
                                  !.scheduled = TRUE,
                                  !.http_status = 200,
                                  !.phase = "responded"]
    /\ UNCHANGED <<pipelineVars, confidence, chunker, splitter, prompt,
                   startup, clearing, fetcher, status, scoring>>

\* analyze_filing raises: the matching except clause raises HTTPException
\* and add_task is never reached.
RouteRaises(kind) ==
    /\ cleanup.phase = "analyzing"
    /\ cleanup' = [cleanup EXCEPT !.called = TRUE,
                                  !.http_status = RouteStatus(kind),
                                  !.phase = "failed"]
    /\ UNCHANGED <<pipelineVars, confidence, chunker, splitter, prompt,
                   startup, clearing, fetcher, status, scoring>>

\* The background task, run once the response has been sent.
RunCleanup ==
    /\ cleanup.phase = "responded"
    /\ cleanup.scheduled
    /\ cleanup' = [cleanup EXCEPT
                     !.task = CleanupTemporaryFiles(cleanup.temp_files),
                     !.phase = "cleaned"]
    /\ UNCHANGED <<pipelineVars, confidence, chunker, splitter, prompt,
                   startup, clearing, fetcher, status, scoring>>

CleanupNext ==
    \/ RouteReturns
    \/ \E kind \in RouteFailures : RouteRaises(kind)
    \/ RunCleanup

CleanupSpec == CleanupInit /\ [][CleanupNext]_vars

\* ---------------------------------------------- clearing the collection
\* (analyzer_service.py clear_vector_database, vector_manager.py
\* clear_collection)

MaxEntries == 4
MaxClears == 3

\* VectorManager.clear_collection on a collection of `count` entries, given
\* what the store does: collection.get() and collection.delete() either
\* work or raise. Every exception is caught and logged as a warning; the
\* method returns normally in all cases. The result is the count left.
ClearCollection(count, store) ==
    CASE store = "get_raises" -> count
      [] store = "delete_raises" /\ count > 0 -> count
      [] OTHER -> 0

ClearingInit ==
    /\ PipelineInit
    /\ clearing \in [called : {FALSE}, count : 0..MaxEntries,
                     vector_initialized : BOOLEAN, calls : {0},
                     raised : {FALSE}, store : {"none"}]
    /\ /\ confidence = NotCalled
    /\ chunker = NotCalled
    /\ splitter = NotCalled
    /\ prompt = NotCalled
    /\ startup = NotCalled
    /\ cleanup = NotCalled
    /\ fetcher = NotCalled
    /\ status = NotCalled
    /\ scoring = NotCalled

\* clear_vector_database when initialisation (if still needed) succeeds:
\* whatever the store does inside clear_collection, nothing is raised.
ClearVectorDatabase(store) ==
    /\ clearing.calls < MaxClears
    /\ store = "delete_raises" => clearing.count > 0
    /\ clearing' = [clearing EXCEPT
                      !.called = TRUE,
                      !.calls = @ + 1,
                      !.vector_initialized = TRUE,
                      !.count = ClearCollection(clearing.count, store),
                      !.raised = FALSE,
                      !.store = store]
    /\ UNCHANGED <<pipelineVars, confidence, chunker, splitter, prompt,
                   startup, cleanup, fetcher, status, scoring>>

\* clear_vector_database when vector_manager.initialize() raises: caught
\* and raised again as AIServiceError("Failed to clear vector database").
ClearInitializeFails ==
    /\ clearing.calls < MaxClears
    /\ ~clearing.vector_initialized
    /\ clearing' = [clearing EXCEPT
                      !.called = TRUE,
                      !.calls = @ + 1,
                      !.raised = TRUE,
                      !.store = "initialize_raises"]
    /\ UNCHANGED <<pipelineVars, confidence, chunker, splitter, prompt,
                   startup, cleanup, fetcher, status, scoring>>

ClearingNext ==
    \/ \E store \in {"works", "get_raises", "delete_raises"} :
           ClearVectorDatabase(store)
    \/ ClearInitializeFails

ClearingSpec == ClearingInit /\ [][ClearingNext]_vars

\* ------------------------------------------------ fetching a filing
\* (document_processor.py fetch_and_process_filing, _validate_sec_url,
\* _try_multiple_formats)

\* if total_length > 5000: break
EarlyExitChars == 5000

\* The strategies list: 1 = HTML Direct, 2 = Text Format, 3 = Original.
Strategies == <<"HTML Direct", "Text Format", "Original Format">>

\* Total content lengths a strategy's chunks can have; 0 stands for an
\* empty chunk list.
ContentLengths == {0, 3000, EarlyExitChars, EarlyExitChars + 1, 7000}

\* What one strategy does when it is run: it raises (its fetch fails, the
\* content is a viewer page or too short), or it returns chunks.
StrategyOutcomes ==
    {[raises |-> TRUE, total |-> 0]}
    \cup {[raises |-> FALSE, total |-> t] : t \in ContentLengths}

\* A filing URL as urlparse and the substring tests see it: scheme, netloc
\* and the part of the text the path patterns are looked for in.
Urls ==
    [scheme : {"", "https"},
     netloc : {"", "sec.gov", "www.sec.gov", "WWW.SEC.GOV", "example.com",
               "www.sec.gov.example.com"},
     path : {"/Archives/edgar/", "/archives/edgar/", "/ix?doc=",
             "/cgi-bin/browse-edgar"}]

\* str.lower() on the texts above.
Lower(s) ==
    CASE s = "WWW.SEC.GOV" -> "www.sec.gov"
      [] s = "/Archives/edgar/" -> "/archives/edgar/"
      [] OTHER -> s

ValidDomains == {"sec.gov", "www.sec.gov"}
ValidPaths == {"/Archives/edgar/", "/ix?doc="}

\* _validate_sec_url: "ok", or the message of the DocumentProcessingError
\* it raises.
ValidateSecUrl_AnyDomain(url) ==
    IF url.scheme = "" \/ url.netloc = "" THEN "Invalid URL format"
    ELSE IF \A p \in ValidPaths : Lower(p) # Lower(url.path)
         THEN "URL does not appear to be a SEC filing"
    ELSE "ok"

ValidateSecUrl(url) ==
    IF url.scheme = "" \/ url.netloc = "" THEN "Invalid URL format"
    ELSE IF Lower(url.netloc) \notin ValidDomains
         THEN "URL must be from sec.gov domain"
    ELSE IF \A p \in ValidPaths : Lower(p) # Lower(url.path)
         THEN "URL does not appear to be a SEC filing"
    ELSE "ok"

\* if total_length > best_content_length
Improves_OrEqual(total, best) == total >= best

Improves(total, best) == total > best

NoBest == [best |-> 0, best_length |-> 0, attempted |-> <<>>,
           stopped |-> FALSE]

\* One iteration of the loop over the strategies. Each strategy that is
\* run issues one HTTP fetch.
TryStrategy(acc, outcomes, i) ==
    IF acc.stopped THEN acc
    ELSE LET ran == [acc EXCEPT !.attempted = Append(@, i)]
             o == outcomes[i]
         IN  IF o.raises THEN ran
             ELSE IF o.total = 0 THEN ran
             ELSE IF Improves(o.total, acc.best_length)
                  THEN [ran EXCEPT !.best = i,
                                   !.best_length = o.total,
                                   !.stopped = (o.total > EarlyExitChars)]
             ELSE ran

RECURSIVE TryFrom(_, _, _)
TryFrom(acc, outcomes, i) ==
    IF i > Len(Strategies) THEN acc
    ELSE TryFrom(TryStrategy(acc, outcomes, i), outcomes, i + 1)

\* _try_multiple_formats(base_url)
TryMultipleFormats(outcomes) == TryFrom(NoBest, outcomes, 1)

\* fetch_and_process_filing(filing_url): what it returns or raises, with
\* the strategies run on the way. Every exception, the validation's
\* included, leaves as DocumentProcessingError("Failed to process
\* filing: ...").
FetchAndProcessFiling(url, outcomes) ==
    LET valid == ValidateSecUrl(url)
        tried == TryMultipleFormats(outcomes)
    IN  IF valid # "ok"
        THEN [result |-> "raised", error |-> "DocumentProcessingError",
              message |-> valid, attempted |-> <<>>, best |-> 0,
              best_length |-> 0]
        ELSE IF tried.best = 0
        THEN [result |-> "raised", error |-> "DocumentProcessingError",
              message |-> "No content could be extracted from any format",
              attempted |-> tried.attempted, best |-> 0, best_length |-> 0]
        ELSE [result |-> "chunks", error |-> "", message |-> "",
              attempted |-> tried.attempted, best |-> tried.best,
              best_length |-> tried.best_length]

NoFetch == [result |-> "none", error |-> "", message |-> "",
            attempted |-> <<>>, best |-> 0, best_length |-> 0]

FetcherInit ==
    /\ PipelineInit
    /\ fetcher \in [called : {FALSE}, url : Urls,
                    outcomes : [1..Len(Strategies) -> StrategyOutcomes],
                    fetch : {NoFetch}, stage : {"fetching"}]
    /\ /\ confidence = NotCalled
    /\ chunker = NotCalled
    /\ splitter = NotCalled
    /\ prompt = NotCalled
    /\ startup = NotCalled
    /\ cleanup = NotCalled
    /\ clearing = NotCalled
    /\ status = NotCalled
    /\ scoring = NotCalled

\* Step 1 of analyze_filing: the fetch returns and the request goes on to
\* the index, or it raises and the request is over.
FetchFiling ==
    /\ ~fetcher.called
    /\ LET f == FetchAndProcessFiling(fetcher.url, fetcher.outcomes)
       IN fetcher' = [fetcher EXCEPT
                        !.called = TRUE,
                        !.fetch = f,
                        !.stage = IF f.result = "chunks"
                                  THEN NextPc(fetcher.stage)
                                  ELSE AfterFailure(fetcher.stage)]
    /\ UNCHANGED <<pipelineVars, confidence, chunker, splitter, prompt,
                   startup, cleanup, clearing, status, scoring>>

FetcherNext == FetchFiling

FetcherSpec == FetcherInit /\ [][FetcherNext]_vars

\* ------------------------------------------------------ system status
\* (analyzer_service.py get_system_status, vector_manager.py health_check,
\* ai_service.py health_check)

\* The VectorManager an AnalyzerService holds: how far initialize() got
\* (0 nothing, 1 embedding model, 2 and the client, 3 and the collection),
\* and what the parts do when the health check exercises them.
VectorManagers ==
    [level : 0..3,
     encode : {"vectors", "empty", "raises"},
     list_collections : {"works", "raises"},
     count : {"works", "raises"},
     initialize : {"works", "raises"}]

\* What client.generate_content does with the test prompt.
LlmProbes == {"OK", "other_text", "empty_text", "raises"}

UnknownStatus ==
    [embedding_model |-> "unknown", vector_database |-> "unknown",
     collection |-> "unknown", error |-> ""]

\* VectorManager.health_check: the three checks in order; an exception in
\* one of them ends the checks, is recorded under "error", and leaves the
\* entries not yet written at "unknown".
VectorHealthCheck(vm) ==
    LET s1 == [UnknownStatus EXCEPT !.embedding_model =
                   IF vm.level < 1 THEN "not_initialized"
                   ELSE IF vm.encode = "vectors" THEN "healthy" ELSE "error"]
        s2 == [s1 EXCEPT !.vector_database =
                   IF vm.level < 2 THEN "not_initialized" ELSE "healthy"]
        s3 == [s2 EXCEPT !.collection =
                   IF vm.level < 3 THEN "not_initialized"
                   ELSE "healthy (n documents)"]
    IN  IF vm.level >= 1 /\ vm.encode = "raises"
        THEN [UnknownStatus EXCEPT !.error = "encode failed"]
        ELSE IF vm.level >= 2 /\ vm.list_collections = "raises"
        THEN [s1 EXCEPT !.error = "store unavailable"]
        ELSE IF vm.level >= 3 /\ vm.count = "raises"
        THEN [s2 EXCEPT !.error = "store unavailable"]
        ELSE s3

\* AIService.health_check: the value under "status".
AIHealthCheck(probe) ==
    CASE probe = "OK" -> "healthy"
      [] probe = "raises" -> "unhealthy"
      [] OTHER -> "degraded"

\* "healthy" in text, for the texts a status dictionary can hold.
ContainsHealthy(text) ==
    text \in {"healthy", "unhealthy", "healthy (n documents)"}

\* status.get("status") == "healthy" or "healthy" in str(status), for the
\* vector store's dictionary (which has no "status" key) and for the AI
\* service's (whose other values never contain the word).
VectorCountsAsHealthy(vs) ==
    \/ ContainsHealthy(vs.embedding_model)
    \/ ContainsHealthy(vs.vector_database)
    \/ ContainsHealthy(vs.collection)
    \/ ContainsHealthy(vs.error)

AICountsAsHealthy(ai) == ai = "healthy" \/ ContainsHealthy(ai)

\* get_system_status: overall_status. get_collection_stats runs between
\* the two health checks and initialises a manager without a collection;
\* if that raises, the outer except answers "error".
OverallStatus(vm, probe) ==
    IF vm.level < 3 /\ vm.initialize = "raises" THEN "error"
    ELSE IF /\ VectorCountsAsHealthy(VectorHealthCheck(vm))
            /\ AICountsAsHealthy(AIHealthCheck(probe))
         THEN "healthy"
    ELSE "degraded"

StatusInit ==
    /\ PipelineInit
    /\ status \in [called : {FALSE}, vm : VectorManagers, probe : LlmProbes,
                   vector_status : {UnknownStatus}, ai_status : {"none"},
                   overall_status : {"none"}]
    /\ /\ confidence = NotCalled
    /\ chunker = NotCalled
    /\ splitter = NotCalled
    /\ prompt = NotCalled
    /\ startup = NotCalled
    /\ cleanup = NotCalled
    /\ clearing = NotCalled
    /\ fetcher = NotCalled
    /\ scoring = NotCalled

GetSystemStatus ==
    /\ ~status.called
    /\ status' = [status EXCEPT
                    !.called = TRUE,
                    !.vector_status = VectorHealthCheck(status.vm),
                    !.ai_status =
                        IF status.vm.level < 3 /\ status.vm.initialize = "raises"
                        THEN "none"
                        ELSE AIHealthCheck(status.probe),
                    !.overall_status = OverallStatus(status.vm, status.probe)]
    /\ UNCHANGED <<pipelineVars, confidence, chunker, splitter, prompt,
                   startup, cleanup, clearing, fetcher, scoring>>

StatusNext == GetSystemStatus

StatusSpec == StatusInit /\ [][StatusNext]_vars

\* ------------------------------------ the score in double precision
\* (ai_service.py _calculate_confidence_score, analyzer_service.py steps
\* 1 to 7 for one request)

\* An IEEE 754 double near a multiple of one tenth, held exactly: t tenths
\* plus d units of 2^-56 / 5, that is the value (t * 2^55 + d) / (5 * 2^56).
\* Every double the scorer meets is a multiple of 2^-56 between -1 and 2.
Double(t, d) == [t |-> t, d |-> d]

\* The decimal literals of the source as doubles: 0.1, 0.2 and 0.3 are not
\* representable and are rounded to the nearest double.
Literal(tenths) ==
    CASE tenths = 0 -> Double(0, 0)
      [] tenths = 1 -> Double(1, 2)
      [] tenths = 2 -> Double(2, 4)
      [] tenths = 3 -> Double(3, -4)
      [] tenths = 5 -> Double(5, 0)
      [] tenths = 10 -> Double(10, 0)

DNeg(x) == Double(-x.t, -x.d)

DLess(x, y) == x.t < y.t \/ (x.t = y.t /\ x.d < y.d)

\* The spacing of the doubles around a non-negative x, in units of 2^-56:
\* 1 below 0.125, 2 below 0.25, 4 below 0.5, 8 below 1, 16 below 2.
Spacing(x) ==
    IF x.t <= 1 THEN 1
    ELSE IF x.t = 2 THEN 2
    ELSE IF x.t <= 4 THEN 4
    ELSE IF x.t = 5 THEN (IF x.d >= 0 THEN 8 ELSE 4)
    ELSE IF x.t <= 9 THEN 8
    ELSE IF x.t = 10 THEN (IF x.d >= 0 THEN 16 ELSE 8)
    ELSE 16

\* Round a non-negative exact sum to the nearest double, ties to the even
\* mantissa. 2^55 is 128 modulo 160, so the sum's count of 2^-56 units
\* modulo 32 is ((128 t + d) % 160) / 5.
RoundMagnitude(x) ==
    LET g == Spacing(x)
        units == (((128 * x.t + x.d) % 160) \div 5) % (2 * g)
        r == units % g
        delta == IF r = 0 THEN 0
                 ELSE IF 2 * r < g THEN -r
                 ELSE IF 2 * r > g THEN g - r
                 ELSE IF (units - r) % (2 * g) = 0 THEN -r
                 ELSE r
    IN  Double(x.t, x.d + 5 * delta)

RoundNearestEven(x) ==
    IF DLess(x, Double(0, 0)) THEN DNeg(RoundMagnitude(DNeg(x)))
    ELSE RoundMagnitude(x)

\* x + y and x - y on doubles.
DAdd(x, y) == RoundNearestEven(Double(x.t + y.t, x.d + y.d))

DSub(x, y) == DAdd(x, DNeg(y))

\* max(0.0, min(1.0, score))
DClamp(x) ==
    IF DLess(x, Literal(0)) THEN Literal(0)
    ELSE IF DLess(Literal(10), x) THEN Literal(10)
    ELSE x

\* _calculate_confidence_score as the interpreter computes it: the same
\* tests as CalculateConfidenceScore, each adjustment a double operation.
CalculateConfidenceScoreDouble(text, n) ==
    LET s0 == Literal(BaseScore)
        s1 == IF HasUncertainty(text) THEN DSub(s0, Literal(2)) ELSE s0
        s2 == IF HasFigure(text) THEN DAdd(s1, Literal(2)) ELSE s1
        s3 == IF n >= 3 THEN DAdd(s2, Literal(1))
              ELSE IF n = 0 THEN DSub(s2, Literal(3))
              ELSE s2
        s4 == IF TextLen(text) < 100 THEN DSub(s3, Literal(1))
              ELSE IF TextLen(text) > 300 THEN DAdd(s3, Literal(1))
              ELSE s3
    IN  DClamp(s4)

\* Chunks one strategy can hand back, by position.
MaxFetched == 6

FetchedChunks == {[k \in 1..n |-> k] : n \in 0..MaxFetched}

\* What similarity_search can return once the request's chunks are in the
\* collection: between 1 and top_k scored chunks, best first.
RetrievedLists ==
    {rel \in UNION {[1..n -> [doc : {0},
                              score : {RelevanceThreshold,
                                       RelevanceThreshold + 1}]] :
                    n \in 1..TopK} :
        \A i \in 1..(Len(rel) - 1) : rel[i].score >= rel[i + 1].score}

\* if not chunks: raise DocumentProcessingError (fetch_and_process_filing),
\* if not documents: raise (analyze_filing).
NoContent_Never(chunks) == FALSE

NoContent(chunks) == chunks = <<>>

ScoringInit ==
    /\ PipelineInit
    /\ scoring \in [called : {FALSE}, chunks : FetchedChunks,
                    retrieved : RetrievedLists, answer : Answers,
                    stage : {"fetching"}, indexed : {<<>>},
                    context : {<<>>}, score : {Literal(0)}]
    /\ /\ confidence = NotCalled
    /\ chunker = NotCalled
    /\ splitter = NotCalled
    /\ prompt = NotCalled
    /\ startup = NotCalled
    /\ cleanup = NotCalled
    /\ clearing = NotCalled
    /\ fetcher = NotCalled
    /\ status = NotCalled

\* Step 1: the fetch hands back its best chunks, or raises when it has
\* none.
ProcessDocument ==
    /\ scoring.stage = "fetching"
    /\ scoring' = [scoring EXCEPT
                     !.called = TRUE,
                     !.stage = IF NoContent(scoring.chunks)
                               THEN AfterFailure(scoring.stage)
                               ELSE "indexing"]
    /\ UNCHANGED <<pipelineVars, confidence, chunker, splitter, prompt,
                   startup, cleanup, clearing, fetcher, status>>

\* Steps 3 to 5: add_documents(documents), similarity_search, and the
\* choice of the context.
IndexAndRetrieve ==
    /\ scoring.stage = "indexing"
    /\ scoring' = [scoring EXCEPT
                     !.indexed = scoring.chunks,
                     !.context = ContextDocuments(scoring.retrieved,
                                                  scoring.chunks),
                     !.stage = "generating"]
    /\ UNCHANGED <<pipelineVars, confidence, chunker, splitter, prompt,
                   startup, cleanup, clearing, fetcher, status>>

\* Steps 6 and 7: the answer is scored against the context it was given.
GenerateAndScore ==
    /\ scoring.stage = "generating"
    /\ scoring' = [scoring EXCEPT
                     !.score = CalculateConfidenceScoreDouble(
                                   scoring.answer, Len(scoring.context)),
                     !.stage = "done"]
    /\ UNCHANGED <<pipelineVars, confidence, chunker, splitter, prompt,
                   startup, cleanup, clearing, fetcher, status>>

ScoringNext ==
    \/ ProcessDocument
    \/ IndexAndRetrieve
    \/ GenerateAndScore

ScoringSpec == ScoringInit /\ [][ScoringNext]_vars

\* ------------------------------------------------------------- claims

\* C1: the stages of a request run in the order fetch, index, retrieve,
\* generate; a stage is started only when every stage before it has
\* returned normally, and a request that is done has run all four.
C1_StageOrder ==
    \A r \in Requests :
        /\ IsPrefix(trace[r], StageOrder)
        /\ IsPrefix(completed[r], trace[r])
        /\ Len(trace[r]) <= Len(completed[r]) + 1
        /\ pc[r] = "done" => completed[r] = StageOrder /\ response[r] # <<>>

C1_Witness == \E r \in Requests : pc[r] = "done" /\ trace[r] = StageOrder

\* C2: a failure ends the request: a request that raised is failed, a
\* failed request has returned no response and has started nothing after
\* the stage that failed, and no stage is ever started twice.
C2_FailureAborts ==
    \A r \in Requests :
        /\ error[r] # <<>> => pc[r] = "failed"
        /\ pc[r] = "failed" =>
              /\ error[r] # <<>>
              /\ response[r] = <<>>
              /\ IsPrefix(completed[r], trace[r])
              /\ Len(trace[r]) <= Len(completed[r]) + 1
        /\ NoDup(trace[r])

C2_Witness ==
    \E r \in Requests :
        pc[r] = "failed" /\ cause[r] = "index" /\ trace[r] = <<"fetch", "index">>

\* C3 (as claimed): two requests that failed for different reasons among
\* fetch, parse, embedding, index and generation are reported as different
\* kinds of error.
C3_DistinctCategories ==
    \A r1, r2 \in Requests :
        (/\ pc[r1] = "failed" /\ pc[r2] = "failed"
         /\ cause[r1] \in {"fetch", "parse", "embedding", "index", "generation"}
         /\ cause[r2] \in {"fetch", "parse", "embedding", "index", "generation"}
         /\ cause[r1] # cause[r2])
        => error[r1][1].kind # error[r2][1].kind

\* C4: when no retrieved chunk is above the relevance threshold, the
\* context handed to the generator is the first 5 chunks of the filing
\* this request fetched (all of them when it has fewer), in document
\* order, and is not empty.
C4_RelevanceFallback ==
    \A r \in Requests :
        (/\ pc[r] = "generating"
         /\ \A i \in 1..Len(relevant[r]) : relevant[r][i].score <= RelevanceThreshold)
        => /\ context[r] # <<>>
           /\ Len(context[r]) = Min(FallbackN, DocLen(req[r].filing_url))
           /\ \A k \in 1..Len(context[r]) :
                 /\ context[r][k] = documents[r][k]
                 /\ context[r][k].source_url = req[r].filing_url
                 /\ context[r][k].chunk_id = k - 1

C4_Witness ==
    \E r \in Requests :
        /\ pc[r] = "generating"
        /\ usedFallback[r]
        /\ relevant[r] # <<>>
        /\ Len(documents[r]) > FallbackN
        /\ Len(context[r]) = FallbackN

\* C5 (as claimed): the result tells a fallback answer from one built on
\* relevant retrieved chunks: two responses that are equal in every field
\* are both fallback answers or both not.
C5_FallbackFlagged ==
    \A r1, r2 \in Requests :
        (pc[r1] = "done" /\ pc[r2] = "done" /\ response[r1] = response[r2])
        => usedFallback[r1] = usedFallback[r2]

\* C6 (as claimed): when a retrieved chunk has similarity >= 0.3, the
\* context is exactly the retrieved chunks with similarity >= 0.3, in
\* retrieval order.
C6_FilterInclusive ==
    \A r \in Requests :
        (/\ pc[r] = "generating"
         /\ \E i \in 1..Len(relevant[r]) : relevant[r][i].score >= RelevanceThreshold)
        => LET AtLeast(p) == p.score >= RelevanceThreshold
               kept == SelectSeq(relevant[r], AtLeast)
           IN context[r] = [n \in 1..Len(kept) |-> kept[n].doc]

\* C6 (amended): when a retrieved chunk has similarity > 0.3, the context
\* is exactly the retrieved chunks with similarity > 0.3, in retrieval
\* order; a chunk scoring exactly 0.3 is dropped.
C6_FilterStrict ==
    \A r \in Requests :
        (/\ pc[r] = "generating"
         /\ \E i \in 1..Len(relevant[r]) : relevant[r][i].score > RelevanceThreshold)
        => LET Above(p) == p.score > RelevanceThreshold
               kept == SelectSeq(relevant[r], Above)
           IN /\ context[r] = [n \in 1..Len(kept) |-> kept[n].doc]
              /\ ~usedFallback[r]

C6_Witness ==
    \E r \in Requests :
        /\ pc[r] = "generating"
        /\ ~usedFallback[r]
        /\ \E i \in 1..Len(relevant[r]) : relevant[r][i].score = RelevanceThreshold
        /\ Len(context[r]) < Len(relevant[r])

\* C7: similarity_search returns at most top_k results, in order of
\* non-increasing similarity.
C7_SearchOrdered ==
    \A r \in Requests :
        /\ Len(relevant[r]) <= TopK
        /\ \A i, j \in 1..Len(relevant[r]) :
              i < j => relevant[r][i].score >= relevant[r][j].score

C7_Witness ==
    \E r \in Requests :
        /\ Len(collection) > TopK
        /\ Len(relevant[r]) = TopK
        /\ relevant[r][1].score > relevant[r][TopK].score

\* C8 (as claimed): of two results with the same similarity, the one
\* inserted into the collection earlier comes first.
C8_TiesByInsertion ==
    \A r \in Requests :
        \A i, j \in 1..Len(relevant[r]) :
            (i < j /\ relevant[r][i].score = relevant[r][j].score)
            => relevant[r][i].idx < relevant[r][j].idx

\* C8 (amended): of two results with the same similarity, the one the
\* store returned earlier comes first (the sort is stable).
C8_TiesKeepStoreOrder ==
    \A r \in Requests :
        \A i, j \in 1..Len(relevant[r]) :
            (i < j /\ relevant[r][i].score = relevant[r][j].score)
            => relevant[r][i].rank < relevant[r][j].rank

C8_Witness ==
    \E r \in Requests :
        \E i, j \in 1..Len(relevant[r]) :
            /\ i < j
            /\ relevant[r][i].score = relevant[r][j].score
            /\ relevant[r][i].idx > relevant[r][j].idx
            /\ relevant[r][i].rank < relevant[r][j].rank

\* C9 (as claimed): add_documents with a chunk list that was added before
\* is not refused for its ids and leaves the collection's count as it was.
C9_IdempotentReingest ==
    \A r \in Requests :
        /\ cause[r] # "duplicate_id"
        /\ (addInfo[r].called /\ addInfo[r].prior /\ addInfo[r].ok)
              => addInfo[r].after = addInfo[r].before

\* C10 (as claimed): entries of the same chunk (content, metadata,
\* position) have the same id, whichever process lifetime added them.
C10_DeterministicIds ==
    \A i, j \in 1..Len(collection) :
        collection[i].doc = collection[j].doc => collection[i].id = collection[j].id

\* C11: ingestion is all-or-nothing: when add_documents raises the
\* collection is left as it was; when it returns every chunk of the call
\* is in the collection.
C11_AtomicIngestion ==
    [][\A r \in Requests :
          pc[r] = "indexing" =>
              /\ pc'[r] = "failed" => collection' = collection
              /\ pc'[r] = "retrieving" =>
                    \A k \in 1..Len(documents[r]) :
                        \E i \in 1..Len(collection') : collection'[i].doc = documents[r][k]]_vars

C11_Witness ==
    \E r1, r2 \in Requests :
        /\ pc[r1] = "failed"
        /\ cause[r1] \in {"embedding", "index"}
        /\ addInfo[r2].called /\ addInfo[r2].ok
        /\ addInfo[r2].before > 0
        /\ addInfo[r2].after = addInfo[r2].before + Len(documents[r2])

\* C12 (as claimed): in one process lifetime VectorManager.initialize
\* runs at most once: no two requests have each run it in the same
\* lifetime.
C12_SingleFlightInit ==
    \A r1, r2 \in Requests :
        (r1 # r2 /\ initializedIn[r1] # 0) => initializedIn[r1] # initializedIn[r2]

\* C20: the LLM backend is called at most once per request; a backend
\* error or an empty text fails the request with an AIServiceError and no
\* response, and a response only follows a call that returned text.
C20_GenerateOnce ==
    \A r \in Requests :
        /\ llm[r].calls <= 1
        /\ llm[r].outcome \in {"backend_error", "empty_text"} =>
              /\ pc[r] = "failed"
              /\ response[r] = <<>>
              /\ error[r] # <<>> /\ error[r][1].kind = "AIServiceError"
        /\ response[r] # <<>> => llm[r] = [calls |-> 1, outcome |-> "text"]

C20_Witness ==
    \E r \in Requests :
        pc[r] = "failed" /\ llm[r] = [calls |-> 1, outcome |-> "empty_text"]

\* C13: the confidence score is 0.5, minus 0.2 for an uncertainty
\* phrase, plus 0.2 for a figure, plus 0.1 with 3 or more context chunks
\* or minus 0.3 with none, minus 0.1 for an answer under 100 characters or
\* plus 0.1 for one over 300, clamped to [0, 1]; it lies within [0, 1].
C13_ConfidenceFormula ==
    confidence.called =>
        LET text == confidence.response
            n == confidence.context_docs
            len == TextLen(text)
            raw == 5 - (IF \E i \in 1..Len(text) : text[i].kind = "uncertain" THEN 2 ELSE 0)
                     + (IF \E i \in 1..Len(text) : text[i].kind = "figure" THEN 2 ELSE 0)
                     + (IF n >= 3 THEN 1 ELSE 0) - (IF n = 0 THEN 3 ELSE 0)
                     - (IF len < 100 THEN 1 ELSE 0) + (IF len > 300 THEN 1 ELSE 0)
        IN /\ confidence.score \in 0..10
           /\ raw < 0 => confidence.score = 0
           /\ raw \in 0..10 => confidence.score = raw

C13_Witness ==
    /\ confidence.called
    /\ HasUncertainty(confidence.response)
    /\ ~HasFigure(confidence.response)
    /\ confidence.context_docs = 0
    /\ TextLen(confidence.response) < 100
    /\ confidence.score = 0

\* C14 (as claimed): an answer with an uncertainty phrase and no figure,
\* scored with no context chunks, has confidence 0.0.
C14_UncertainNoContextZero ==
    (/\ confidence.called
     /\ HasUncertainty(confidence.response)
     /\ ~HasFigure(confidence.response)
     /\ confidence.context_docs = 0)
    => confidence.score = 0

\* C14 (amended): an answer of at most 300 characters with an uncertainty
\* phrase and no figure, scored with no context chunks, has confidence
\* 0.0; a longer one has 0.1.
C14_UncertainNoContextByLength ==
    (/\ confidence.called
     /\ HasUncertainty(confidence.response)
     /\ ~HasFigure(confidence.response)
     /\ confidence.context_docs = 0)
    => confidence.score = IF TextLen(confidence.response) <= 300 THEN 0 ELSE 1

C14_Witness ==
    /\ confidence.called
    /\ HasUncertainty(confidence.response)
    /\ ~HasFigure(confidence.response)
    /\ confidence.context_docs = 0
    /\ TextLen(confidence.response) = 100
    /\ confidence.score = 0

\* C15 (as claimed): when the split has more than max_chunks chunks,
\* exactly max_chunks are emitted, and they are the first max_chunks
\* chunks of the split, in order.
C15_CapBySplitCount ==
    (chunker.called /\ Len(chunker.chunks) > chunker.max_chunks)
    => /\ Len(chunker.documents) = chunker.max_chunks
       /\ \A k \in 1..Len(chunker.documents) :
             chunker.documents[k].page_content = chunker.chunks[k]

\* C15 (amended): never more than max_chunks chunks are emitted; the
\* chunks emitted are the first max_chunks of the chunks of the split whose
\* stripped length is over 50, in order, or all of those when there are no
\* more than max_chunks of them.
C15_CapByKeptCount ==
    chunker.called =>
        LET kept == {i \in 1..Len(chunker.chunks) : chunker.chunks[i].stripped > 50}
            pos(k) == chunker.documents[k].chunk_id + 1
        IN /\ Len(chunker.documents) <= chunker.max_chunks
           /\ Len(chunker.documents) = Min(Cardinality(kept), chunker.max_chunks)
           /\ \A k \in 1..Len(chunker.documents) :
                 /\ pos(k) \in kept
                 /\ chunker.documents[k].page_content = chunker.chunks[pos(k)]
                 /\ Cardinality({i \in kept : i < pos(k)}) = k - 1

C15_Witness ==
    /\ chunker.called
    /\ Len(chunker.chunks) > chunker.max_chunks
    /\ Cardinality({i \in 1..Len(chunker.chunks) : chunker.chunks[i].stripped > 50})
          > chunker.max_chunks
    /\ Len(chunker.documents) = chunker.max_chunks
    /\ chunker.documents[1].chunk_id > 0

\* C16: no emitted chunk has a stripped length under 50, and an empty
\* text gives an empty split and an empty chunk sequence.
C16_MinimumContent ==
    /\ chunker.called =>
          /\ \A k \in 1..Len(chunker.documents) :
                chunker.documents[k].page_content.stripped >= 50
          /\ chunker.chunks = <<>> => chunker.documents = <<>>
    /\ \A size \in 1..MaxChunkSize : \A overlap \in 0..(size - 1) :
          SplitText(<<>>, size, overlap) = <<>>

C16_Witness ==
    /\ chunker.called
    /\ \E i \in 1..Len(chunker.chunks) :
          chunker.chunks[i].stripped = 50 /\ chunker.chunks[i].len > 50
    /\ chunker.documents # <<>>
    /\ Len(chunker.documents) < chunker.max_chunks

\* C17: every chunk of the split is at most chunk_size characters long,
\* for every text and every chunk_overlap below chunk_size.
C17_ChunkSizeBound ==
    splitter.called =>
        \A i \in 1..Len(splitter.chunks) :
            Len(splitter.chunks[i]) <= splitter.chunk_size

C17_Witness ==
    /\ splitter.called
    /\ splitter.chunk_overlap > 0
    /\ Len(splitter.text) > splitter.chunk_size
    /\ Len(splitter.chunks) >= 2
    /\ \E i \in 1..Len(splitter.chunks) :
          Len(splitter.chunks[i]) = splitter.chunk_size

\* C18: an emitted chunk's chunk_id is the 0-based position of its text
\* in the split; chunk_ids increase strictly along the emitted sequence
\* and each is below the chunk's total_chunks, the length of the split.
C18_OrdinalIsPosition ==
    chunker.called =>
        /\ \A k \in 1..Len(chunker.documents) :
              /\ chunker.documents[k].total_chunks = Len(chunker.chunks)
              /\ chunker.documents[k].chunk_id \in 0..(chunker.documents[k].total_chunks - 1)
              /\ chunker.documents[k].page_content
                    = chunker.chunks[chunker.documents[k].chunk_id + 1]
        /\ \A j, k \in 1..Len(chunker.documents) :
              j < k => chunker.documents[j].chunk_id < chunker.documents[k].chunk_id

C18_Witness ==
    /\ chunker.called
    /\ Len(chunker.documents) >= 2
    /\ chunker.documents[1].chunk_id = 0
    /\ chunker.documents[2].chunk_id > 1
    /\ chunker.documents[Len(chunker.documents)].chunk_id = Len(chunker.chunks) - 1

\* C19 (as claimed): a context chunk is an excerpt of the prompt exactly
\* when it is among the first 10 and its stripped length is at least 50.
C19_ExcerptsAtLeast50 ==
    prompt.called =>
        \A i \in 1..Len(prompt.documents) :
            (\E k \in 1..Len(prompt.excerpts) : prompt.excerpts[k].doc = prompt.documents[i])
            <=> (i <= 10 /\ prompt.documents[i].page_content.stripped >= 50)

\* C19 (amended): a context chunk is an excerpt of the prompt exactly when
\* it is among the first 10 and its stripped length is over 50; a prompt
\* has at most 10 excerpts, in the order of the context.
C19_ExcerptsOver50 ==
    prompt.called =>
        /\ Len(prompt.excerpts) <= 10
        /\ \A i \in 1..Len(prompt.documents) :
              (\E k \in 1..Len(prompt.excerpts) : prompt.excerpts[k].doc = prompt.documents[i])
              <=> (i <= 10 /\ prompt.documents[i].page_content.stripped > 50)
        /\ \A j, k \in 1..Len(prompt.excerpts) :
              j < k => prompt.excerpts[j].number < prompt.excerpts[k].number

C19_Witness ==
    /\ prompt.called
    /\ Len(prompt.documents) > 10
    /\ \E i \in 1..10 : prompt.documents[i].page_content.stripped = 50
    /\ Len(prompt.excerpts) = 9

\* C21 (as claimed): a request that failed on the backend's rate limit
\* carries an error of a kind other than that of a request that failed on
\* another backend error, and the error still has the retry-after hint.
C21_RateLimitDistinguishable ==
    \A r \in Requests :
        (pc[r] = "failed" /\ llm[r].outcome = "rate_limit")
        => /\ error[r][1].retry_after = BackendFailure("rate_limit").retry_after
           /\ \A o \in Requests :
                 (pc[o] = "failed" /\ llm[o].outcome = "backend_error")
                 => error[o][1].kind # error[r][1].kind

\* C22 (as claimed): configuration is validated at startup: a process whose
\* settings have chunk_overlap >= chunk_size, or a non-positive chunk_size or
\* max_chunks, never serves an analyze request with those settings.
C22_InvalidNeverServes ==
    (startup.called /\ startup.outcome = "served")
    => /\ startup.settings.chunk_overlap < startup.settings.chunk_size
       /\ startup.settings.chunk_size > 0
       /\ startup.settings.max_chunks > 0

\* C23: cleanup of temporary files is scheduled only once the analysis
\* result has been produced (never for a request that failed), and a file
\* whose deletion fails neither changes the request's answer nor keeps the
\* remaining files from being attempted.
C23_CleanupAfterResult ==
    /\ cleanup.scheduled => cleanup.result = "analysis"
    /\ cleanup.phase = "failed" => ~cleanup.scheduled
    /\ cleanup.phase = "cleaned"
       => /\ cleanup.http_status = 200
          /\ cleanup.result = "analysis"
          /\ cleanup.task.attempted = 1..Len(cleanup.temp_files)
          /\ cleanup.task.removed =
                 {i \in 1..Len(cleanup.temp_files) :
                      cleanup.temp_files[i] = "removable"}

\* A cleanup ran over a list whose first file could not be deleted and
\* whose later file was deleted.
C23_Witness ==
    /\ cleanup.phase = "cleaned"
    /\ Len(cleanup.temp_files) = 3
    /\ cleanup.temp_files[1] = "locked"
    /\ cleanup.temp_files[3] = "removable"
    /\ 3 \in cleanup.task.removed
    /\ cleanup.task.warnings = 1

\* C24 (as claimed): whenever clear_vector_database returns without raising,
\* the collection is empty (also when it was empty before), and a deletion
\* that failed is raised to the caller.
C24_ClearedOrRaised ==
    /\ (clearing.called /\ ~clearing.raised) => clearing.count = 0
    /\ (clearing.called /\ clearing.store \in {"get_raises", "delete_raises"})
       => clearing.raised

\* C25 (as claimed): whatever the interleaving of requests and whatever the
\* collection already holds, every context chunk handed to the answer
\* generator for a request belongs to the filing that request ingested.
C25_RequestIsolation ==
    \A r \in Requests :
        pc[r] = "generating"
        => \A k \in 1..Len(context[r]) :
               context[r][k].source_url = req[r].filing_url

\* C26: for a URL that passes validation, _try_multiple_formats runs the
\* strategies in the order HTML, text, original, stopping after the first
\* one that yields more than 5000 characters; a strategy that raises is
\* skipped; the chunks returned are those of the attempted strategy with
\* the greatest total length, the earliest such strategy on a tie.
C26_BestFormat ==
    (fetcher.called /\ ValidateSecUrl(fetcher.url) = "ok")
    => LET out == fetcher.outcomes
           att == fetcher.fetch.attempted
           Big(i) == ~out[i].raises /\ out[i].total > EarlyExitChars
           Yield(i) == IF out[i].raises THEN 0 ELSE out[i].total
           last == IF \E i \in 1..3 : Big(i)
                   THEN CHOOSE i \in 1..3 :
                            Big(i) /\ \A j \in 1..(i - 1) : ~Big(j)
                   ELSE 3
       IN  /\ att = [i \in 1..last |-> i]
           /\ IF \A i \in 1..last : Yield(i) = 0
              THEN /\ fetcher.fetch.result = "raised"
                   /\ fetcher.fetch.best = 0
              ELSE /\ fetcher.fetch.result = "chunks"
                   /\ fetcher.fetch.best \in 1..last
                   /\ \A i \in 1..last :
                          Yield(i) <= Yield(fetcher.fetch.best)
                   /\ \A i \in 1..(fetcher.fetch.best - 1) :
                          Yield(i) < Yield(fetcher.fetch.best)
                   /\ fetcher.fetch.best_length = Yield(fetcher.fetch.best)

\* The first strategy raised, the other two yielded the same length below
\* the threshold, and the second one's chunks were returned.
C26_Witness ==
    /\ fetcher.called
    /\ fetcher.outcomes[1].raises
    /\ fetcher.outcomes[2].total = 3000
    /\ fetcher.outcomes[3].total = 3000
    /\ fetcher.fetch.attempted = <<1, 2, 3>>
    /\ fetcher.fetch.best = 2

\* C27 (as claimed): for a URL whose host is not sec.gov or www.sec.gov, or
\* that contains neither '/Archives/edgar/' nor '/ix?doc=' as written,
\* fetch_and_process_filing raises DocumentProcessingError, no strategy
\* issues an HTTP fetch and the request does not go on to the index.
C27_ValidationAsWritten ==
    (/\ fetcher.called
     /\ \/ Lower(fetcher.url.netloc) \notin ValidDomains
        \/ fetcher.url.path \notin ValidPaths)
    => /\ fetcher.fetch.result = "raised"
       /\ fetcher.fetch.error = "DocumentProcessingError"
       /\ fetcher.fetch.attempted = <<>>
       /\ fetcher.stage = "failed"

\* C27 (amended): the same, the two path patterns being looked for without
\* regard to case: a URL containing '/archives/edgar/' in any case passes.
C27_ValidationPrecedesFetch ==
    (/\ fetcher.called
     /\ \/ Lower(fetcher.url.netloc) \notin ValidDomains
        \/ \A p \in ValidPaths : Lower(fetcher.url.path) # Lower(p))
    => /\ fetcher.fetch.result = "raised"
       /\ fetcher.fetch.error = "DocumentProcessingError"
       /\ fetcher.fetch.attempted = <<>>
       /\ fetcher.stage = "failed"

\* A URL on another domain with an accepted path, and strategies that would
\* have yielded content, was refused before any strategy ran.
C27_Witness ==
    /\ fetcher.called
    /\ fetcher.url.scheme = "https"
    /\ fetcher.url.netloc = "www.sec.gov.example.com"
    /\ fetcher.url.path = "/Archives/edgar/"
    /\ fetcher.outcomes[1].total = 7000
    /\ fetcher.fetch.message = "URL must be from sec.gov domain"
    /\ fetcher.fetch.attempted = <<>>
    /\ fetcher.stage = "failed"

\* C28: provided each external call returns or fails, every analyze request
\* that has started eventually reaches done or failed, and on the way it
\* attempts each stage at most once. (The fetch stage runs at most the
\* three strategies of _try_multiple_formats: see C26.)
C28_Terminates ==
    /\ \A r \in Requests : (pc[r] = "fetching") ~> Finished(r)
    /\ [](\A r \in Requests : NoDup(trace[r]) /\ Len(trace[r]) <= Len(StageOrder))

\* A request was answered after another request, started while the first
\* was still fetching, had failed in between.
C28_Witness ==
    \E r, o \in Requests :
        /\ r # o
        /\ pc[r] = "done"
        /\ trace[r] = StageOrder
        /\ pc[o] = "failed"
        /\ cause[o] = "generation"

\* C29 (as claimed): get_system_status answers overall_status "healthy" only
\* if the vector store's health check found all of its parts healthy and
\* the AI service's health check answered "healthy".
C29_HealthyOnlyIfBoth ==
    (status.called /\ status.overall_status = "healthy")
    => /\ status.ai_status = "healthy"
       /\ status.vector_status.embedding_model = "healthy"
       /\ status.vector_status.vector_database = "healthy"
       /\ status.vector_status.collection = "healthy (n documents)"
       /\ status.vector_status.error = ""

\* C30 (as claimed): at the generating stage the context is non-empty and
\* has at most 8 chunks, the index is never given an empty chunk list, and
\* every confidence score returned is at least 0.2.
C30_ScoreAtLeastFifth ==
    /\ scoring.stage \in {"generating", "done"}
       => /\ scoring.indexed # <<>>
          /\ Len(scoring.context) \in 1..TopK
    /\ scoring.stage = "done" => ~DLess(scoring.score, Literal(2))

\* C30 (amended): the same, with the score bounded by what the doubles
\* give: 0.5 - 0.2 - 0.1 is 0.19999999999999998, the double just below 0.2.
C30_ScoreAtLeastFifthLessUlp ==
    /\ scoring.stage \in {"generating", "done"}
       => /\ scoring.indexed # <<>>
          /\ Len(scoring.context) \in 1..TopK
    /\ scoring.stage = "done"
       => ~DLess(scoring.score, DSub(DSub(Literal(5), Literal(2)), Literal(1)))

\* A short, uncertain answer without figures over a context of two relevant
\* chunks was scored just below 0.2.
C30_Witness ==
    /\ scoring.stage = "done"
    /\ Len(scoring.context) = 2
    /\ HasUncertainty(scoring.answer)
    /\ ~HasFigure(scoring.answer)
    /\ TextLen(scoring.answer) < 100
    /\ scoring.score = Double(2, -6)
    /\ DLess(scoring.score, Literal(2))

=============================================================================
